---- MODULE Spec2Model ----
(***************************************************************************)
(* A model of the in-memory cache of src/cache.go: the item map guarded by *)
(* one sync.RWMutex, the operations of Cache, and the janitor goroutine    *)
(* with its ticker and its unbuffered stop channel.                        *)
(*                                                                         *)
(* Time is the value of time.Now().UnixNano(), scaled down: the clock runs *)
(* over 1..MaxTime and an int64 is modelled as a signed integer of IntBits *)
(* bits, so that now + duration wraps the way the int64 sum does.          *)
(***************************************************************************)
EXTENDS Integers, Sequences, FiniteSets, TLC

(* ------------------------------ bounds -------------------------------- *)

\* the clock runs from 1 to MaxTime
MaxTime == 3
\* the number of operations the callers start in one run
MaxOps == 2
\* the width of the scaled-down int64
IntBits == 5
\* the longest ordinary ttl a caller passes
MaxTTL == 2

Keys == {"a", "b"}
Callers == {"c1", "c2"}
Janitor == "janitor"
Procs == Callers \cup {Janitor}
NoProc == "none"

\* the cleanup intervals New is called with: 0 starts no janitor
Intervals == {0, 2}

(* --------------------------- int64 arithmetic -------------------------- *)

IntMax == 2^(IntBits - 1) - 1
IntMin == -(2^(IntBits - 1))

\* two's complement wrap of a sum into the integer's width
WrapMod(x) == x % (2^IntBits)
Wrap(x) == IF WrapMod(x) > IntMax THEN WrapMod(x) - 2^IntBits ELSE WrapMod(x)

\* the durations callers pass: negative, zero, the shortest and the longest
\* ordinary ttl, and the largest duration there is
Durations == {-1, 0, 1, MaxTTL, IntMax}

(* ------------------------------- values -------------------------------- *)

\* what a caller hands to Set: a []byte, a string, an int (encoded as JSON)
\* and a channel (which json.Marshal rejects)
VBytes == [t |-> "bytes", d |-> <<1, 2>>]
VString == [t |-> "string", d |-> <<55>>]
VInt == [t |-> "int", d |-> <<7>>]
VChan == [t |-> "chan", d |-> <<>>]
NoValue == [t |-> "none", d |-> <<>>]
Values == {VBytes, VString, VInt, VChan}

Digits == 48..57

\* json.Marshal of an int below ten: its one ASCII digit; of a channel: an error
MarshalOK(v) == v.t = "int"
Marshal(v) == <<48 + v.d[1]>>

\* json.Unmarshal into *int: one ASCII digit decodes, anything else is an error
UnmarshalOK(bytes) == Len(bytes) = 1 /\ bytes[1] \in Digits
Unmarshal(bytes) == bytes[1] - 48

\* the type switch of SetWithExpiration
EncodeOK(v) == v.t \in {"bytes", "string"} \/ MarshalOK(v)
Encode(v) ==
    CASE v.t = "bytes" -> v.d
      [] v.t = "string" -> v.d
      [] OTHER -> Marshal(v)

\* the expiration SetWithExpiration computes at clock reading t
ExpirationFor(duration, t) == IF duration <= 0 THEN 0 ELSE Wrap(t + duration)

(* -------------------------------- items -------------------------------- *)

\* Item. Its third field, Created, is written by SetWithExpiration from the
\* clock and read by no operation: no behaviour of the cache depends on it,
\* and the model carries the two fields that are read
Item(value, expiration) == [Value |-> value, Expiration |-> expiration]

EmptyMap == [k \in {} |-> Item(<<>>, 0)]

\* (for comparison) an assignment that drops the other keys
MapPut_Alone(m, k, it) == [x \in {k} |-> it]

\* (for comparison) an assignment that keeps the expiration of the entry it
\* replaces
MapPut_Merge(m, k, it) ==
    [x \in DOMAIN m \cup {k} |->
        IF x # k THEN m[x]
        ELSE IF k \in DOMAIN m THEN Item(it.Value, m[k].Expiration) ELSE it]

\* c.items[key] = it
MapPut(m, k, it) == [x \in DOMAIN m \cup {k} |-> IF x = k THEN it ELSE m[x]]
MapDelete(m, k) == [x \in DOMAIN m \ {k} |-> m[x]]

\* (for comparison) the read test without the "0 means no expiration" guard
Expired_NoSentinel(it, t) == t > it.Expiration

\* (for comparison) the read test with the comparison turned round
Expired_Reversed(it, t) == it.Expiration > 0 /\ t < it.Expiration

\* the expiry test of GetBytes and Exists
Expired(it, t) == it.Expiration > 0 /\ t > it.Expiration

\* (for comparison) a loop that removes every entry that has an expiration
ShouldPurge_NoTime(it, t) == it.Expiration > 0

\* (for comparison) a loop without the "0 means no expiration" guard
ShouldPurge_NoSentinel(it, t) == t > it.Expiration

\* (for comparison) a loop that removes the entries that have not expired
ShouldPurge_Reversed(it, t) == it.Expiration > 0 /\ t < it.Expiration

\* the test of DeleteExpired's loop
ShouldPurge(it, t) == it.Expiration > 0 /\ t > it.Expiration

\* (for comparison) a loop that removes nothing
Purge_Nothing(m, t) == m

\* the map DeleteExpired's loop leaves
Purge(m, t) == [x \in {k \in DOMAIN m : ~ShouldPurge(m[k], t)} |-> m[x]]

(* -------------------------------- state -------------------------------- *)

VARIABLES
    now,              \* time.Now().UnixNano()
    items,            \* c.items
    mu,               \* c.mu: the writer and the set of readers holding it
    cleanupInterval,  \* c.cleanupInterval
    ticker,           \* the janitor's time.Ticker: running, next firing, channel C
    pc,               \* where each caller and the janitor is
    call,             \* the operation each caller is in, with its arguments
    loc,              \* the local variables and results of each process
    ops,              \* operations started so far
    hist,             \* per key, the last set or removal by a caller (history)
    shared            \* per caller, the key whose entry's Value is a slice over
                      \* the same array as a []byte the caller holds ("": none)

vars == <<now, items, mu, cleanupInterval, ticker, pc, call, loc, ops, hist, shared>>

NoCall == [op |-> "none", key |-> "", value |-> NoValue, duration |-> 0, target |-> "nil"]

\* the locals of an operation: now is the operation's clock reading; n is the
\* int an operation returns (a count, a duration, a decoded int) and, in the
\* janitor, the tick it received
Loc0 == [bytes |-> <<>>, expiration |-> 0, now |-> 0, found |-> FALSE,
         err |-> "nil", n |-> 0, str |-> <<>>]

NoHist == [kind |-> "none", value |-> NoValue, duration |-> 0, tnow |-> 0]

Unlocked == [w |-> NoProc, r |-> {}]

\* sync.RWMutex: Lock needs no holder at all, RLock no writer
CanLock == mu.w = NoProc /\ mu.r = {}
CanRLock == mu.w = NoProc

\* New
Init ==
    /\ now = 1
    /\ items = EmptyMap
    /\ mu = Unlocked
    /\ cleanupInterval \in Intervals
    /\ ticker = [active |-> FALSE, next |-> 0, C |-> 0]
    /\ pc = [p \in Procs |->
               IF p = Janitor
               THEN (IF cleanupInterval > 0 THEN "startJanitor" ELSE "off")
               ELSE "idle"]
    /\ call = [p \in Callers |-> NoCall]
    /\ loc = [p \in Procs |-> Loc0]
    /\ ops = 0
    /\ hist = [k \in Keys |-> NoHist]
    /\ shared = [c \in Callers |-> ""]

(* -------------------------------- clock -------------------------------- *)

Tick ==
    /\ now < MaxTime
    /\ now' = now + 1
    /\ UNCHANGED <<items, mu, cleanupInterval, ticker, pc, call, loc, ops, hist, shared>>

(* ------------------------------ the calls ------------------------------ *)

SetWithExpirationCall(k, v, d) ==
    [op |-> "SetWithExpiration", key |-> k, value |-> v, duration |-> d, target |-> "nil"]

\* Set is SetWithExpiration with a zero duration
SetCall(k, v) == SetWithExpirationCall(k, v, 0)

KeyCall(o, k) == [op |-> o, key |-> k, value |-> NoValue, duration |-> 0, target |-> "nil"]
GetCall(k, tg) == [op |-> "Get", key |-> k, value |-> NoValue, duration |-> 0, target |-> tg]
PlainCall(o) == KeyCall(o, "")

Targets == {"nil", "string", "int"}

\* the calls a caller makes: the value does not interact with the duration
\* anywhere in the code, so every duration comes with one value and every
\* value with Set
Calls ==
    {SetWithExpirationCall(k, VBytes, d) : k \in Keys, d \in Durations}
    \cup {SetCall(k, v) : k \in Keys, v \in Values}
    \cup {KeyCall(o, k) : o \in {"GetBytes", "GetString", "Exists", "Delete", "TTL"}, k \in Keys}
    \cup {GetCall(k, tg) : k \in Keys, tg \in Targets}
    \cup {PlainCall(o) : o \in {"Flush", "Count", "DeleteExpired", "StopJanitor"}}

\* a caller starts an operation
Begin(c, cl) ==
    /\ pc[c] = "idle"
    /\ ops < MaxOps
    /\ ops' = ops + 1
    /\ call' = [call EXCEPT ![c] = cl]
    /\ pc' = [pc EXCEPT ![c] = cl.op]
    /\ UNCHANGED <<now, items, mu, cleanupInterval, ticker, loc, hist, shared>>

\* an operation whose result is made after its lock is released returns
Return(c) ==
    /\ pc[c] = "return"
    /\ pc' = [pc EXCEPT ![c] = "idle"]
    /\ call' = [call EXCEPT ![c] = NoCall]
    /\ loc' = [loc EXCEPT ![c] = Loc0]
    /\ UNCHANGED <<now, items, mu, cleanupInterval, ticker, ops, hist, shared>>

\* (for comparison) an unlock that releases nothing
Unlock_Kept(c) == mu

\* the unlock that ends an operation, and its return
Unlock(c) == [w |-> NoProc, r |-> mu.r \ {c}]

Finish(c, from) ==
    /\ pc[c] = from
    /\ mu' = Unlock(c)
    /\ pc' = [pc EXCEPT ![c] = "idle"]
    /\ call' = [call EXCEPT ![c] = NoCall]
    /\ loc' = [loc EXCEPT ![c] = Loc0]
    /\ UNCHANGED <<now, items, cleanupInterval, ticker, ops, hist, shared>>

(* -------------------------- SetWithExpiration -------------------------- *)

\* (for comparison) a set that goes on to store after json.Marshal has failed
SetWithExpiration_Encode_StoresAnyway(c) ==
    /\ pc[c] = "SetWithExpiration"
    /\ loc' = [loc EXCEPT ![c].bytes = IF EncodeOK(call[c].value)
                                       THEN Encode(call[c].value) ELSE <<>>,
                          ![c].err = IF EncodeOK(call[c].value) THEN "nil" ELSE "encoding",
                          ![c].expiration = ExpirationFor(call[c].duration, now),
                          ![c].now = IF call[c].duration <= 0 THEN 0 ELSE now]
    /\ pc' = [pc EXCEPT ![c] = "SetWithExpiration_Lock"]
    /\ UNCHANGED <<now, items, mu, cleanupInterval, ticker, call, ops, hist, shared>>

\* the type switch and the expiration, before the lock
SetWithExpiration_Encode(c) ==
    /\ pc[c] = "SetWithExpiration"
    /\ IF EncodeOK(call[c].value)
       THEN /\ loc' = [loc EXCEPT ![c].bytes = Encode(call[c].value),
                                  ![c].expiration = ExpirationFor(call[c].duration, now),
                                  ![c].now = IF call[c].duration <= 0 THEN 0 ELSE now]
            /\ pc' = [pc EXCEPT ![c] = "SetWithExpiration_Lock"]
       ELSE /\ loc' = [loc EXCEPT ![c].err = "encoding"]
            /\ pc' = [pc EXCEPT ![c] = "return"]
    /\ UNCHANGED <<now, items, mu, cleanupInterval, ticker, call, ops, hist, shared>>

\* the entry a set installs
NewItem(c) == Item(loc[c].bytes, loc[c].expiration)

\* c.mu.Lock() and the assignment to c.items[key]
SetWithExpiration_StoreItem(c) ==
    /\ pc[c] = "SetWithExpiration_Lock"
    /\ CanLock
    /\ mu' = [mu EXCEPT !.w = c]
    /\ items' = MapPut(items, call[c].key, NewItem(c))
    /\ hist' = [hist EXCEPT ![call[c].key] =
                  [kind |-> "set", value |-> call[c].value,
                   duration |-> call[c].duration, tnow |-> loc[c].now]]
    /\ pc' = [pc EXCEPT ![c] = "SetWithExpiration_Unlock"]
    /\ UNCHANGED <<now, cleanupInterval, ticker, call, loc, ops>>

\* ... by a caller whose slices are left alone
SetWithExpiration_Store(c) == SetWithExpiration_StoreItem(c) /\ UNCHANGED shared

SetWithExpiration_Unlock(c) == Finish(c, "SetWithExpiration_Unlock")

(* ------------------------ GetBytes, GetString, Get ---------------------- *)

\* what GetBytes returns from map m at clock reading t
GetBytesFound(m, k, t) == k \in DOMAIN m /\ ~Expired(m[k], t)
GetBytesBytes(m, k, t) == IF GetBytesFound(m, k, t) THEN m[k].Value ELSE <<>>

\* c.mu.RLock() and the lookup; GetString and Get start by calling GetBytes
GetBytes_Lookup(c) ==
    /\ pc[c] \in {"GetBytes", "GetString", "Get"}
    /\ CanRLock
    /\ mu' = [mu EXCEPT !.r = @ \cup {c}]
    /\ loc' = [loc EXCEPT ![c].bytes = GetBytesBytes(items, call[c].key, now),
                          ![c].found = GetBytesFound(items, call[c].key, now),
                          ![c].now = now]
    /\ pc' = [pc EXCEPT ![c] = "GetBytes_RUnlock"]
    /\ UNCHANGED <<now, items, cleanupInterval, ticker, call, ops, hist>>

\* ... by a caller whose slices are left alone
GetBytes_Read(c) == GetBytes_Lookup(c) /\ UNCHANGED shared

\* the deferred RUnlock of GetBytes called directly
GetBytes_RUnlock(c) ==
    /\ call[c].op = "GetBytes"
    /\ Finish(c, "GetBytes_RUnlock")

\* (for comparison) a GetBytes that returns to Get with the read lock held
GetBytes_ReturnInner_KeepsLock(c) ==
    /\ pc[c] = "GetBytes_RUnlock"
    /\ call[c].op \in {"GetString", "Get"}
    /\ pc' = [pc EXCEPT ![c] = IF call[c].op = "Get" THEN "Get_Decode" ELSE "GetString_Convert"]
    /\ UNCHANGED <<now, items, mu, cleanupInterval, ticker, call, loc, ops, hist, shared>>

\* the deferred RUnlock of GetBytes called by GetString or Get
GetBytes_ReturnInner(c) ==
    /\ pc[c] = "GetBytes_RUnlock"
    /\ call[c].op \in {"GetString", "Get"}
    /\ mu' = Unlock(c)
    /\ pc' = [pc EXCEPT ![c] = IF call[c].op = "Get" THEN "Get_Decode" ELSE "GetString_Convert"]
    /\ UNCHANGED <<now, items, cleanupInterval, ticker, call, loc, ops, hist, shared>>

\* string(bytes): the same bytes, as text
StringOf(bytes) == bytes

GetString_Convert(c) ==
    /\ pc[c] = "GetString_Convert"
    /\ loc' = [loc EXCEPT ![c].str = IF loc[c].found THEN StringOf(loc[c].bytes) ELSE <<>>]
    /\ pc' = [pc EXCEPT ![c] = "return"]
    /\ UNCHANGED <<now, items, mu, cleanupInterval, ticker, call, ops, hist, shared>>

\* the rest of Get, after GetBytes has returned
Get_Decode(c) ==
    /\ pc[c] = "Get_Decode"
    /\ loc' =
         IF ~loc[c].found \/ call[c].target = "nil" THEN loc
         ELSE IF call[c].target = "string"
              THEN [loc EXCEPT ![c].str = StringOf(loc[c].bytes)]
              ELSE IF UnmarshalOK(loc[c].bytes)
                   THEN [loc EXCEPT ![c].n = Unmarshal(loc[c].bytes)]
                   ELSE [loc EXCEPT ![c].err = "decode"]
    /\ pc' = [pc EXCEPT ![c] = "return"]
    /\ UNCHANGED <<now, items, mu, cleanupInterval, ticker, call, ops, hist, shared>>

(* -------------------------------- Exists -------------------------------- *)

ExistsResult(m, k, t) == k \in DOMAIN m /\ ~Expired(m[k], t)

Exists_Read(c) ==
    /\ pc[c] = "Exists"
    /\ CanRLock
    /\ mu' = [mu EXCEPT !.r = @ \cup {c}]
    /\ loc' = [loc EXCEPT ![c].found = ExistsResult(items, call[c].key, now),
                          ![c].now = now]
    /\ pc' = [pc EXCEPT ![c] = "Exists_RUnlock"]
    /\ UNCHANGED <<now, items, cleanupInterval, ticker, call, ops, hist, shared>>

Exists_RUnlock(c) == Finish(c, "Exists_RUnlock")

(* --------------------------------- Count -------------------------------- *)

\* (for comparison) a Count of the entries that have not expired
CountResult_Live(m) == Cardinality({k \in DOMAIN m : ~Expired(m[k], now)})

\* len(c.items)
CountResult(m) == Cardinality(DOMAIN m)

Count_Read(c) ==
    /\ pc[c] = "Count"
    /\ CanRLock
    /\ mu' = [mu EXCEPT !.r = @ \cup {c}]
    /\ loc' = [loc EXCEPT ![c].n = CountResult(items)]
    /\ pc' = [pc EXCEPT ![c] = "Count_RUnlock"]
    /\ UNCHANGED <<now, items, cleanupInterval, ticker, call, ops, hist, shared>>

Count_RUnlock(c) == Finish(c, "Count_RUnlock")

(* ---------------------------------- TTL --------------------------------- *)

\* (for comparison) a TTL that reports a lapsed key as a missing one
TTLErr_Conflated(m, k, t) ==
    IF k \notin DOMAIN m THEN "key not found"
    ELSE IF m[k].Expiration = 0 THEN "nil"
    ELSE IF t > m[k].Expiration THEN "key not found"
    ELSE "nil"

\* the error TTL returns from map m at clock reading t
TTLErr(m, k, t) ==
    IF k \notin DOMAIN m THEN "key not found"
    ELSE IF m[k].Expiration = 0 THEN "nil"
    ELSE IF t > m[k].Expiration THEN "key expired"
    ELSE "nil"

\* the duration TTL returns: -1 is the infinite one
TTLDuration(m, k, t) ==
    IF k \notin DOMAIN m THEN 0
    ELSE IF m[k].Expiration = 0 THEN -1
    ELSE IF t > m[k].Expiration THEN 0
    ELSE Wrap(m[k].Expiration - t)

TTL_Read(c) ==
    /\ pc[c] = "TTL"
    /\ CanRLock
    /\ mu' = [mu EXCEPT !.r = @ \cup {c}]
    /\ loc' = [loc EXCEPT ![c].n = TTLDuration(items, call[c].key, now),
                          ![c].err = TTLErr(items, call[c].key, now),
                          ![c].now = now]
    /\ pc' = [pc EXCEPT ![c] = "TTL_RUnlock"]
    /\ UNCHANGED <<now, items, cleanupInterval, ticker, call, ops, hist, shared>>

TTL_RUnlock(c) == Finish(c, "TTL_RUnlock")

(* ----------------------------- Delete, Flush ---------------------------- *)

Removed == [kind |-> "removed", value |-> NoValue, duration |-> 0, tnow |-> 0]

Delete_Remove(c) ==
    /\ pc[c] = "Delete"
    /\ CanLock
    /\ mu' = [mu EXCEPT !.w = c]
    /\ items' = MapDelete(items, call[c].key)
    /\ hist' = [hist EXCEPT ![call[c].key] = Removed]
    /\ pc' = [pc EXCEPT ![c] = "Delete_Unlock"]
    /\ UNCHANGED <<now, cleanupInterval, ticker, call, loc, ops, shared>>

Delete_Unlock(c) == Finish(c, "Delete_Unlock")

\* (for comparison) a Flush that drops only the entries that have expired
Flush_Clear_ExpiredOnly(c) ==
    /\ pc[c] = "Flush"
    /\ CanLock
    /\ mu' = [mu EXCEPT !.w = c]
    /\ items' = Purge(items, now)
    /\ hist' = [k \in Keys |-> Removed]
    /\ loc' = [loc EXCEPT ![c].n = CountResult(items)]
    /\ pc' = [pc EXCEPT ![c] = "Flush_Unlock"]
    /\ UNCHANGED <<now, cleanupInterval, ticker, call, ops, shared>>

\* c.mu.Lock() and the new map; n keeps the size of the map that is let go
\* (history: Flush returns nothing)
Flush_Clear(c) ==
    /\ pc[c] = "Flush"
    /\ CanLock
    /\ mu' = [mu EXCEPT !.w = c]
    /\ items' = EmptyMap
    /\ hist' = [k \in Keys |-> Removed]
    /\ loc' = [loc EXCEPT ![c].n = CountResult(items)]
    /\ pc' = [pc EXCEPT ![c] = "Flush_Unlock"]
    /\ UNCHANGED <<now, cleanupInterval, ticker, call, ops, shared>>

Flush_Unlock(c) == Finish(c, "Flush_Unlock")

(* ----------------------------- DeleteExpired ---------------------------- *)

\* run by a caller, and by the janitor on every tick: now := time.Now().UnixNano()
DeleteExpired_Now(p) ==
    /\ pc[p] = "DeleteExpired"
    /\ loc' = [loc EXCEPT ![p].now = now]
    /\ pc' = [pc EXCEPT ![p] = "DeleteExpired_Lock"]
    /\ UNCHANGED <<now, items, mu, cleanupInterval, ticker, call, ops, hist, shared>>

\* c.mu.Lock() and the loop
DeleteExpired_Sweep(p) ==
    /\ pc[p] = "DeleteExpired_Lock"
    /\ CanLock
    /\ mu' = [mu EXCEPT !.w = p]
    /\ items' = Purge(items, loc[p].now)
    /\ pc' = [pc EXCEPT ![p] = "DeleteExpired_Unlock"]
    /\ UNCHANGED <<now, cleanupInterval, ticker, call, loc, ops, hist, shared>>

DeleteExpired_Unlock(c) == Finish(c, "DeleteExpired_Unlock")

\* the janitor's DeleteExpired returns into its loop
Janitor_Unlock ==
    /\ pc[Janitor] = "DeleteExpired_Unlock"
    /\ mu' = Unlock(Janitor)
    /\ pc' = [pc EXCEPT ![Janitor] = "select"]
    /\ loc' = [loc EXCEPT ![Janitor] = Loc0]
    /\ UNCHANGED <<now, items, cleanupInterval, ticker, call, ops, hist, shared>>

(* ------------------------- the janitor, StopJanitor --------------------- *)

\* the ticker's next firing after one at clock reading t: late firings are skipped
NextFiring(tk, t) == tk.next + cleanupInterval * (1 + ((t - tk.next) \div cleanupInterval))

\* the goroutine New starts: time.NewTicker
startJanitor ==
    /\ pc[Janitor] = "startJanitor"
    /\ ticker' = [active |-> TRUE, next |-> now + cleanupInterval, C |-> 0]
    /\ pc' = [pc EXCEPT ![Janitor] = "select"]
    /\ UNCHANGED <<now, items, mu, cleanupInterval, call, loc, ops, hist, shared>>

\* the runtime fires the ticker: C holds one tick, a tick that finds it full is dropped
Ticker_Fire ==
    /\ ticker.active
    /\ now >= ticker.next
    /\ ticker' = [ticker EXCEPT !.C = IF @ = 0 THEN now ELSE @,
                                !.next = NextFiring(ticker, now)]
    /\ UNCHANGED <<now, items, mu, cleanupInterval, pc, call, loc, ops, hist, shared>>

\* case <-ticker.C: the tick carries the time it was sent at
Janitor_Tick ==
    /\ pc[Janitor] = "select"
    /\ ticker.C # 0
    /\ ticker' = [ticker EXCEPT !.C = 0]
    /\ loc' = [loc EXCEPT ![Janitor].n = ticker.C]
    /\ pc' = [pc EXCEPT ![Janitor] = "DeleteExpired"]
    /\ UNCHANGED <<now, items, mu, cleanupInterval, call, ops, hist, shared>>

StopJanitor_Check(c) ==
    /\ pc[c] = "StopJanitor"
    /\ pc' = [pc EXCEPT ![c] = IF cleanupInterval > 0 THEN "StopJanitor_Send" ELSE "return"]
    /\ UNCHANGED <<now, items, mu, cleanupInterval, ticker, call, loc, ops, hist, shared>>

\* (for comparison) a janitor that takes the stop signal and goes on
Janitor_Stop_GoesOn(c) ==
    /\ pc[Janitor] = "select"
    /\ pc[c] = "StopJanitor_Send"
    /\ pc' = [pc EXCEPT ![c] = "return"]
    /\ UNCHANGED <<now, items, mu, cleanupInterval, ticker, call, loc, ops, hist, shared>>

\* case <-c.stopCleanup meets c.stopCleanup <- true: the channel is unbuffered, so
\* the send completes only together with the janitor's receive; the janitor
\* returns and its deferred ticker.Stop() runs
Janitor_Stop(c) ==
    /\ pc[Janitor] = "select"
    /\ pc[c] = "StopJanitor_Send"
    /\ pc' = [pc EXCEPT ![Janitor] = "stopped", ![c] = "return"]
    /\ ticker' = [active |-> FALSE, next |-> 0, C |-> 0]
    /\ UNCHANGED <<now, items, mu, cleanupInterval, call, loc, ops, hist, shared>>

(* --------------------------- the specification -------------------------- *)

\* the steps of the callers Cs, who draw their calls from menu, of the clock
\* and of the janitor
Step(Cs, menu) ==
    \/ Tick
    \/ \E c \in Cs, cl \in menu : Begin(c, cl)
    \/ \E c \in Cs : Return(c)
    \/ \E c \in Cs : SetWithExpiration_Encode(c)
    \/ \E c \in Cs : SetWithExpiration_Store(c)
    \/ \E c \in Cs : SetWithExpiration_Unlock(c)
    \/ \E c \in Cs : GetBytes_Read(c)
    \/ \E c \in Cs : GetBytes_RUnlock(c)
    \/ \E c \in Cs : GetBytes_ReturnInner(c)
    \/ \E c \in Cs : GetString_Convert(c)
    \/ \E c \in Cs : Get_Decode(c)
    \/ \E c \in Cs : Exists_Read(c)
    \/ \E c \in Cs : Exists_RUnlock(c)
    \/ \E c \in Cs : Count_Read(c)
    \/ \E c \in Cs : Count_RUnlock(c)
    \/ \E c \in Cs : TTL_Read(c)
    \/ \E c \in Cs : TTL_RUnlock(c)
    \/ \E c \in Cs : Delete_Remove(c)
    \/ \E c \in Cs : Delete_Unlock(c)
    \/ \E c \in Cs : Flush_Clear(c)
    \/ \E c \in Cs : Flush_Unlock(c)
    \/ \E p \in Cs \cup {Janitor} : DeleteExpired_Now(p)
    \/ \E p \in Cs \cup {Janitor} : DeleteExpired_Sweep(p)
    \/ \E c \in Cs : DeleteExpired_Unlock(c)
    \/ Janitor_Unlock
    \/ startJanitor
    \/ Ticker_Fire
    \/ Janitor_Tick
    \/ \E c \in Cs : StopJanitor_Check(c)
    \/ \E c \in Cs : Janitor_Stop(c)

\* one caller, the clock and the janitor; the caller leaves the slices it
\* passed in and got back alone
Next == Step({"c1"}, Calls)

Spec == Init /\ [][Next]_vars

(* ------------------ two callers, each on a key of its own --------------- *)

\* the key each caller keeps to
OwnKey(c) == IF c = "c1" THEN "a" ELSE "b"

\* Set, SetWithExpiration, GetBytes, Get and Delete of key k
DisjointCalls(k) ==
    {SetWithExpirationCall(k, VBytes, d) : d \in {1, IntMax}}
    \cup {SetCall(k, v) : v \in {VBytes, VString}}
    \cup {KeyCall(o, k) : o \in {"GetBytes", "Delete"}}
    \cup {GetCall(k, "string")}

\* the steps of caller c, all on its own key
DisjointStep(c) ==
    \/ \E cl \in DisjointCalls(OwnKey(c)) : Begin(c, cl)
    \/ Return(c)
    \/ SetWithExpiration_Encode(c)
    \/ SetWithExpiration_Store(c)
    \/ SetWithExpiration_Unlock(c)
    \/ GetBytes_Read(c)
    \/ GetBytes_RUnlock(c)
    \/ GetBytes_ReturnInner(c)
    \/ Get_Decode(c)
    \/ Delete_Remove(c)
    \/ Delete_Unlock(c)

\* the steps of the janitor goroutine and of its ticker
JanitorStep ==
    \/ startJanitor
    \/ Ticker_Fire
    \/ Janitor_Tick
    \/ DeleteExpired_Now(Janitor)
    \/ DeleteExpired_Sweep(Janitor)
    \/ Janitor_Unlock

NextDisjoint ==
    \/ Tick
    \/ JanitorStep
    \/ \E c \in Callers : DisjointStep(c)

SpecDisjoint == Init /\ [][NextDisjoint]_vars

(* ---------------------- two callers on the same key --------------------- *)

\* every operation of Cache, on one key: sets without and with a ttl, of
\* values that are stored verbatim, encoded, and rejected
ConcCalls ==
    {SetCall("a", v) : v \in {VBytes, VInt, VChan}}
    \cup {SetWithExpirationCall("a", VString, d) : d \in {1, IntMax}}
    \cup {KeyCall(o, "a") : o \in {"GetBytes", "GetString", "Exists", "Delete", "TTL"}}
    \cup {GetCall("a", "int")}
    \cup {PlainCall(o) : o \in {"Flush", "Count", "DeleteExpired", "StopJanitor"}}

NextConc == Step(Callers, ConcCalls)

SpecConc == Init /\ [][NextConc]_vars

\* the steps that carry on the operation caller c is in
Run(c) ==
    \/ Return(c)
    \/ SetWithExpiration_Encode(c)
    \/ SetWithExpiration_Store(c)
    \/ SetWithExpiration_Unlock(c)
    \/ GetBytes_Read(c)
    \/ GetBytes_RUnlock(c)
    \/ GetBytes_ReturnInner(c)
    \/ GetString_Convert(c)
    \/ Get_Decode(c)
    \/ Exists_Read(c)
    \/ Exists_RUnlock(c)
    \/ Count_Read(c)
    \/ Count_RUnlock(c)
    \/ TTL_Read(c)
    \/ TTL_RUnlock(c)
    \/ Delete_Remove(c)
    \/ Delete_Unlock(c)
    \/ Flush_Clear(c)
    \/ Flush_Unlock(c)
    \/ DeleteExpired_Now(c)
    \/ DeleteExpired_Sweep(c)
    \/ DeleteExpired_Unlock(c)
    \/ StopJanitor_Check(c)
    \/ Janitor_Stop(c)

\* the scheduler runs every goroutine that can run, and the mutex is handed to
\* a goroutine that waits for it
Fairness ==
    /\ \A c \in Callers : WF_vars(Run(c))
    /\ WF_vars(JanitorStep)

\* one call of every operation: whether an operation returns depends on the
\* path it takes (encoded or rejected, found or not), not on the bytes or the ttl
FairCalls ==
    {SetCall("a", v) : v \in {VBytes, VChan}}
    \cup {KeyCall(o, "a") : o \in {"GetBytes", "GetString", "Exists", "Delete", "TTL"}}
    \cup {GetCall("a", "int")}
    \cup {PlainCall(o) : o \in {"Flush", "Count", "DeleteExpired", "StopJanitor"}}

NextFair == Step(Callers, FairCalls)

SpecFair == Init /\ [][NextFair]_vars /\ Fairness

(* ---------------- a caller that writes to the slices it holds ----------- *)

\* the slices over the entries of the keys ks are no longer over an entry's array
Forget(sh, ks) == [c \in Callers |-> IF sh[c] \in ks THEN "" ELSE sh[c]]

\* the store of a set: `case []byte: bytes = v` puts the caller's own slice in
\* the entry, while []byte(v) of a string and json.Marshal make a new array
Shared_Store(c) ==
    /\ SetWithExpiration_StoreItem(c)
    /\ shared' = [Forget(shared, {call[c].key}) EXCEPT
                    ![c] = IF call[c].value.t = "bytes" THEN call[c].key
                           ELSE Forget(shared, {call[c].key})[c]]

\* the lookup of GetBytes: `return item.Value, true` hands the entry's own
\* slice to the caller
Shared_GetBytes(c) ==
    /\ GetBytes_Lookup(c)
    /\ shared' = IF GetBytesFound(items, call[c].key, now)
                 THEN [shared EXCEPT ![c] = call[c].key]
                 ELSE shared

\* between two calls, the caller assigns to the first byte of the slice it
\* holds: b[0] = 9. The entry's Value is a slice over the same array
Caller_Write(c) ==
    /\ pc[c] = "idle"
    /\ shared[c] \in DOMAIN items
    /\ items' = [items EXCEPT ![shared[c]].Value = [@ EXCEPT ![1] = 9]]
    /\ UNCHANGED <<now, mu, cleanupInterval, ticker, pc, call, loc, ops, hist, shared>>

\* Set of a []byte and of a string, GetBytes and Delete
SharedCalls ==
    {SetCall(k, v) : k \in Keys, v \in {VBytes, VString}}
    \cup {KeyCall(o, k) : o \in {"GetBytes", "Delete"}, k \in Keys}

NextShared ==
    \/ Tick
    \/ \E cl \in SharedCalls : Begin("c1", cl)
    \/ SetWithExpiration_Encode("c1")
    \/ Shared_Store("c1")
    \/ SetWithExpiration_Unlock("c1")
    \/ Shared_GetBytes("c1")
    \/ GetBytes_RUnlock("c1")
    \/ Delete_Remove("c1")
    \/ Delete_Unlock("c1")
    \/ Caller_Write("c1")

SpecShared == Init /\ [][NextShared]_vars

(* ------------------------- what the claims speak of --------------------- *)

\* key k was last written by a set of a caller (no Delete, Flush or set since)
WasSet(k) == hist[k].kind = "set"

\* that set was given a ttl, and more than the ttl has passed at clock reading t
Lapsed(k, t) ==
    WasSet(k) /\ hist[k].duration > 0 /\ t > hist[k].tnow + hist[k].duration

\* that set was given a ttl, and less than the ttl has passed at clock reading t
Fresh(k, t) ==
    WasSet(k) /\ hist[k].duration > 0 /\ t < hist[k].tnow + hist[k].duration

\* caller c holds the result of a lookup of key k made under the read lock
ReadOf(c, k) ==
    /\ call[c].key = k
    /\ \/ pc[c] \in {"GetBytes_RUnlock", "Exists_RUnlock"}
       \/ pc[c] \in {"Get_Decode", "GetString_Convert", "return"}
          /\ call[c].op \in {"Get", "GetString"}

\* caller c has the final result of operation o on key k
Returned(c, o, k) == pc[c] = "return" /\ call[c].op = o /\ call[c].key = k

\* process p has run the loop of DeleteExpired and still holds the lock
Swept(p) == pc[p] = "DeleteExpired_Unlock"

(* --------------------------------- C1 ----------------------------------- *)

\* C1: every call to StopJanitor returns: no caller is ever left sending on the
\* stop channel of a janitor that has returned and will never receive.
C1_StopJanitorReturns ==
    \A c \in Callers : pc[c] = "StopJanitor_Send" => pc[Janitor] # "stopped"

(* --------------------------------- C2 ----------------------------------- *)

\* C2: after Set(k, v), at every later instant and whatever the janitor and
\* DeleteExpired have done, k is in the map, Exists and GetBytes find it, and
\* every read gives v back: the bytes of a []byte or a string verbatim, the int
\* through Get; until k is deleted, flushed or set again.
C2_PlainSetIsRead ==
    \A k \in Keys : (WasSet(k) /\ hist[k].duration = 0) =>
        /\ k \in DOMAIN items
        /\ ExistsResult(items, k, now)
        /\ GetBytesFound(items, k, now)
        /\ hist[k].value.t \in {"bytes", "string"}
              => GetBytesBytes(items, k, now) = hist[k].value.d
        /\ \A c \in Callers :
              /\ ReadOf(c, k) => loc[c].found
              /\ (pc[c] = "GetBytes_RUnlock" /\ call[c].key = k
                    /\ hist[k].value.t \in {"bytes", "string"})
                    => loc[c].bytes = hist[k].value.d
              /\ (Returned(c, "GetString", k) /\ hist[k].value.t = "string")
                    => loc[c].str = hist[k].value.d
              /\ (Returned(c, "Get", k) /\ call[c].target = "string"
                    /\ hist[k].value.t = "string")
                    => loc[c].str = hist[k].value.d /\ loc[c].err = "nil"
              /\ (Returned(c, "Get", k) /\ call[c].target = "int"
                    /\ hist[k].value.t = "int")
                    => loc[c].n = hist[k].value.d[1] /\ loc[c].err = "nil"

\* a string set with Set at instant 1 is read back by GetString at the last
\* instant, with a janitor running
C2_Witness ==
    \E c \in Callers : \E k \in Keys :
        /\ Returned(c, "GetString", k)
        /\ WasSet(k) /\ hist[k].duration = 0 /\ hist[k].value = VString
        /\ loc[c].found /\ loc[c].str = <<55>>
        /\ loc[c].now = MaxTime
        /\ cleanupInterval > 0 /\ pc[Janitor] = "select"

(* --------------------------------- C3 ----------------------------------- *)

\* C3: once more than the ttl has passed since a SetWithExpiration(k, v, ttl)
\* with ttl > 0, Exists(k) is false and GetBytes, GetString and Get report k
\* not found, purged or not, with or without a janitor.
C3_LapsedIsNotFound ==
    \A k \in Keys :
        /\ Lapsed(k, now) =>
              /\ ~ExistsResult(items, k, now)
              /\ ~GetBytesFound(items, k, now)
              /\ GetBytesBytes(items, k, now) = <<>>
        /\ \A c \in Callers : (ReadOf(c, k) /\ Lapsed(k, loc[c].now)) =>
              /\ ~loc[c].found
              /\ loc[c].bytes = <<>>
              /\ pc[c] = "return" => (loc[c].str = <<>> /\ loc[c].err = "nil")

\* without a janitor and without a purge, Exists has missed an entry that is
\* still in the map
C3_Witness ==
    \E c \in Callers : \E k \in Keys :
        /\ pc[c] = "Exists_RUnlock" /\ call[c].key = k
        /\ Lapsed(k, loc[c].now)
        /\ k \in DOMAIN items
        /\ cleanupInterval = 0
        /\ ~loc[c].found

(* --------------------------------- C4 ----------------------------------- *)

\* C4: while less than the ttl has passed since a SetWithExpiration(k, v, ttl)
\* with ttl > 0, k is in the map, Exists(k) is true and reads give v: no tick of
\* the janitor and no DeleteExpired removes it.
C4_FreshIsKept ==
    \A k \in Keys :
        /\ Fresh(k, now) =>
              /\ k \in DOMAIN items
              /\ ExistsResult(items, k, now)
              /\ hist[k].value.t \in {"bytes", "string"}
                    => GetBytesBytes(items, k, now) = hist[k].value.d
        /\ \A c \in Callers : (ReadOf(c, k) /\ Fresh(k, loc[c].now)) =>
              /\ loc[c].found
              /\ (pc[c] = "GetBytes_RUnlock" /\ hist[k].value.t \in {"bytes", "string"})
                    => loc[c].bytes = hist[k].value.d

\* the janitor has just run its loop over an entry whose ttl has not passed
C4_Witness ==
    /\ Swept(Janitor)
    /\ \E k \in Keys : Fresh(k, now) /\ hist[k].duration <= MaxTTL /\ k \in DOMAIN items

(* --------------------------------- C5 ----------------------------------- *)

\* C5: for a key that Exists reports live and that was written with ttl > 0,
\* TTL at the same instant returns no error and a duration d with 0 < d <= ttl.
C5_LiveTTLIsPositive ==
    \A c \in Callers : \A k \in Keys :
        (/\ pc[c] = "TTL_RUnlock" /\ call[c].key = k
         /\ WasSet(k) /\ hist[k].duration > 0
         /\ ExistsResult(items, k, loc[c].now))
        => /\ loc[c].err = "nil"
           /\ 0 < loc[c].n
           /\ loc[c].n <= hist[k].duration

(* --------------------------------- C6 ----------------------------------- *)

\* the outcome of a TTL call, read off the map it ran on
C6_Outcome(c) ==
    LET k == call[c].key
        t == loc[c].now
    IN  /\ k \notin DOMAIN items => loc[c].err = "key not found"
        /\ (k \in DOMAIN items /\ items[k].Expiration = 0)
              => (loc[c].err = "nil" /\ loc[c].n = -1)
        /\ (k \in DOMAIN items /\ items[k].Expiration # 0 /\ t > items[k].Expiration)
              => loc[c].err = "key expired"
        /\ (k \in DOMAIN items /\ items[k].Expiration # 0 /\ t <= items[k].Expiration)
              => (loc[c].err = "nil" /\ loc[c].n >= 0)
        /\ loc[c].err \in {"nil", "key not found", "key expired"}

\* C6: TTL fails with key-not-found on a key that is not in the map, returns
\* the infinite duration -1 and no error on a never-expiring key, fails with
\* key-expired (another error) on a key whose expiration has lapsed and that is
\* still in the map; and TTL leaves the map as it was.
C6_TTLOutcomes ==
    /\ [](\A c \in Callers : pc[c] = "TTL_RUnlock" => C6_Outcome(c))
    /\ [][\A c \in Callers : TTL_Read(c) => items' = items]_vars

\* TTL has failed with key-expired on an entry that is still in the map
C6_Witness ==
    \E c \in Callers :
        /\ pc[c] = "TTL_RUnlock"
        /\ call[c].key \in DOMAIN items
        /\ loc[c].err = "key expired"
        /\ items[call[c].key].Expiration > 0

(* --------------------------------- C7 ----------------------------------- *)

\* C7: a set with ttl <= 0 stores expiration 0, and its entry is never reported
\* expired and never purged; a set with ttl > 0 stores the clock reading of the
\* call plus the ttl, which is not 0.
C7_StoredExpiration ==
    \A k \in Keys : WasSet(k) =>
        IF hist[k].duration <= 0
        THEN /\ k \in DOMAIN items
             /\ items[k].Expiration = 0
             /\ ExistsResult(items, k, now)
        ELSE k \in DOMAIN items =>
                /\ items[k].Expiration = hist[k].tnow + hist[k].duration
                /\ items[k].Expiration # 0

(* --------------------------------- C8 ----------------------------------- *)

\* C8, as claimed: DeleteExpired run at clock reading t leaves no entry whose
\* expiration is nonzero and <= t, the one equal to t included.
C8_PurgesAtOrBefore ==
    \A p \in Procs : Swept(p) =>
        \A k \in DOMAIN items :
            ~(items[k].Expiration # 0 /\ items[k].Expiration <= loc[p].now)

\* C8, amended: DeleteExpired run at clock reading t leaves no entry whose
\* expiration is positive and < t.
C8_PurgesStrictlyBefore ==
    \A p \in Procs : Swept(p) =>
        \A k \in DOMAIN items :
            ~(items[k].Expiration > 0 /\ items[k].Expiration < loc[p].now)

\* a purge has removed an entry that expired before its clock reading and has
\* kept one that expires exactly at it
C8_Witness ==
    \E p \in Procs : \E k1, k2 \in Keys :
        /\ Swept(p)
        /\ WasSet(k1) /\ hist[k1].duration \in 1..MaxTTL
        /\ hist[k1].tnow + hist[k1].duration < loc[p].now
        /\ k1 \notin DOMAIN items
        /\ k2 \in DOMAIN items /\ items[k2].Expiration = loc[p].now

(* --------------------------------- C9 ----------------------------------- *)

\* what one run of DeleteExpired's loop by p does to the map
C9_Frame(p) ==
    LET t == loc[p].now
    IN  /\ DOMAIN items' \subseteq DOMAIN items
        /\ \A k \in DOMAIN items :
              /\ (items[k].Expiration = 0 \/ items[k].Expiration >= t)
                    => (k \in DOMAIN items' /\ items'[k] = items[k])
              /\ k \notin DOMAIN items'
                    => (items[k].Expiration > 0 /\ items[k].Expiration < t)
        /\ (\A k \in DOMAIN items : ~(items[k].Expiration > 0 /\ items[k].Expiration < t))
              => items' = items

\* C9: DeleteExpired removes only entries whose expiration has passed: every
\* never-expiring entry and every entry that has not expired stays, with its
\* value and expiration, no key is added, and on a map already purged at that
\* instant it changes nothing.
C9_PurgeFrame == [][\A p \in Procs : DeleteExpired_Sweep(p) => C9_Frame(p)]_vars

\* a purge has removed an expired entry and kept a never-expiring one
C9_Witness ==
    \E p \in Procs : \E k1, k2 \in Keys :
        /\ Swept(p)
        /\ WasSet(k1) /\ hist[k1].duration \in 1..MaxTTL /\ k1 \notin DOMAIN items
        /\ WasSet(k2) /\ hist[k2].duration <= 0
        /\ k2 \in DOMAIN items /\ items[k2].Expiration = 0

(* --------------------------------- C10 ---------------------------------- *)

\* C10: when the janitor has run DeleteExpired for a tick, its clock reading
\* is not before the tick, and no entry whose expiration instant lies before
\* the tick is left in the map, nor in Count().
C10_TickPurges ==
    Swept(Janitor) =>
        /\ loc[Janitor].n > 0
        /\ loc[Janitor].now >= loc[Janitor].n
        /\ \A k \in DOMAIN items :
              ~(items[k].Expiration > 0 /\ items[k].Expiration < loc[Janitor].n)
        /\ CountResult(items) =
              Cardinality({k \in DOMAIN items :
                  items[k].Expiration <= 0 \/ items[k].Expiration >= loc[Janitor].n})

\* the tick after an entry's expiration instant has emptied the map
C10_Witness ==
    /\ Swept(Janitor)
    /\ \E k \in Keys :
          /\ WasSet(k) /\ hist[k].duration \in 1..MaxTTL
          /\ hist[k].tnow + hist[k].duration < loc[Janitor].n
          /\ k \notin DOMAIN items
    /\ CountResult(items) = 0


(* --------------------------------- C11 ---------------------------------- *)

\* a step that only a caller's own Set, Delete, Flush or DeleteExpired takes
CallerWrites ==
    \E c \in Callers :
        /\ pc[c] \in {"SetWithExpiration_Lock", "Delete", "Flush", "DeleteExpired_Lock"}
        /\ pc'[c] # pc[c]

\* C11: once StopJanitor on a running janitor has returned, the janitor has
\* taken the stop signal and has returned; from then on it stays stopped, its
\* ticker is stopped, it runs no DeleteExpired, and the map changes only by a
\* caller's own Set, Delete, Flush or DeleteExpired.
C11_StoppedPurgesNoMore ==
    /\ [](\A c \in Callers :
            (pc[c] = "return" /\ call[c].op = "StopJanitor" /\ cleanupInterval > 0)
                => pc[Janitor] = "stopped")
    /\ [][pc[Janitor] = "stopped" =>
           (/\ pc'[Janitor] = "stopped"
            /\ ~ticker'.active
            /\ ~DeleteExpired_Sweep(Janitor)
            /\ (items' # items => CallerWrites))]_vars

\* the janitor has been stopped and an entry whose ttl has passed is still in
\* the map
C11_Witness ==
    /\ pc[Janitor] = "stopped"
    /\ \E k \in Keys : Lapsed(k, now) /\ k \in DOMAIN items /\ Expired(items[k], now)
    /\ CountResult(items) = 1

(* --------------------------------- C12 ---------------------------------- *)

\* a step in which some process purges, deletes, flushes or sets
WriterStep ==
    \E p \in Procs :
        /\ pc[p] \in {"SetWithExpiration_Lock", "Delete", "Flush", "DeleteExpired_Lock"}
        /\ pc'[p] # pc[p]

\* C12: Count returns the number of entries in the map, the expired ones that
\* are not purged included; no read (GetBytes, GetString, Get, Exists, TTL,
\* Count) changes the map, and an entry leaves the map only in a step of
\* DeleteExpired (a caller's or the janitor's), Delete or Flush.
C12_CountsExpired ==
    /\ [](\A c \in Callers : pc[c] = "Count_RUnlock" =>
            /\ loc[c].n = Cardinality(DOMAIN items)
            /\ loc[c].n >= Cardinality({k \in Keys : Lapsed(k, now) /\ k \in DOMAIN items}))
    /\ [][/\ ((\E c \in Callers :
                 \/ GetBytes_Read(c) \/ GetBytes_RUnlock(c) \/ GetBytes_ReturnInner(c)
                 \/ GetString_Convert(c) \/ Get_Decode(c)
                 \/ Exists_Read(c) \/ Exists_RUnlock(c)
                 \/ TTL_Read(c) \/ TTL_RUnlock(c)
                 \/ Count_Read(c) \/ Count_RUnlock(c)) => items' = items)
            /\ (DOMAIN items' # DOMAIN items) => WriterStep]_vars

\* Count has counted an entry whose ttl has passed
C12_Witness ==
    \E c \in Callers : \E k \in Keys :
        /\ pc[c] = "Count_RUnlock"
        /\ Lapsed(k, now) /\ k \in DOMAIN items /\ Expired(items[k], now)
        /\ loc[c].n = 1

(* --------------------------------- C13 ---------------------------------- *)

\* C13: when Flush has replaced the map, and as long as no set has stored
\* since, the map is empty: Count is 0, GetBytes and Exists report every key
\* absent and TTL fails with key-not-found, whatever the entries were.
C13_FlushEmpties ==
    /\ \A c \in Callers : pc[c] = "Flush_Unlock" =>
            /\ items = EmptyMap
            /\ CountResult(items) = 0
    /\ (\A k \in Keys : hist[k].kind = "removed") =>
            /\ CountResult(items) = 0
            /\ \A k \in Keys :
                  /\ ~GetBytesFound(items, k, now)
                  /\ GetBytesBytes(items, k, now) = <<>>
                  /\ ~ExistsResult(items, k, now)
                  /\ TTLErr(items, k, now) = "key not found"

\* Flush has let go of a map that held an entry
C13_Witness ==
    \E c \in Callers :
        /\ pc[c] = "Flush_Unlock"
        /\ loc[c].n > 0
        /\ items = EmptyMap


(* --------------------------------- C14 ---------------------------------- *)

\* the caller that keeps to key k
Owner(k) == CHOOSE c \in Callers : OwnKey(c) = k

\* the entry the last set of k stored: its value and its expiration together
LastStored(k) ==
    Item(Encode(hist[k].value), ExpirationFor(hist[k].duration, hist[k].tnow))

\* the entry of k is not the same before and after the step
EntryChanges(k) ==
    \/ (k \in DOMAIN items) # (k \in DOMAIN items')
    \/ k \in DOMAIN items /\ k \in DOMAIN items' /\ items'[k] # items[k]

\* C14: with callers on disjoint keys and the janitor running, no update is
\* lost and no entry is torn: the entry of a key is the value and expiration
\* its caller's last set stored together, it is missing only after the caller's
\* Delete or the purge of an expired entry, a read gives the bytes of that set,
\* and the entry of a key changes only in a step of the key's own caller or in
\* the janitor's purge of it once expired.
C14_DisjointKeysKeep ==
    /\ [](\A k \in Keys :
            /\ k \in DOMAIN items => (WasSet(k) /\ items[k] = LastStored(k))
            /\ (WasSet(k) /\ k \notin DOMAIN items) => LastStored(k).Expiration > 0
            /\ pc[Owner(k)] = "SetWithExpiration_Unlock" => items[k] = NewItem(Owner(k))
            /\ pc[Owner(k)] = "Delete_Unlock" => k \notin DOMAIN items
            /\ (pc[Owner(k)] = "GetBytes_RUnlock" /\ loc[Owner(k)].found)
                  => (WasSet(k) /\ loc[Owner(k)].bytes = Encode(hist[k].value)))
    /\ [][\A k \in Keys : EntryChanges(k) =>
            \/ pc'[Owner(k)] # pc[Owner(k)]
            \/ /\ DeleteExpired_Sweep(Janitor)
               /\ Expired(items[k], loc[Janitor].now)]_vars

\* one caller holds the lock with its entry stored, the entry of the other
\* caller is in the map, and that caller is waiting at the lock for its next
\* set
C14_Witness ==
    /\ pc["c2"] = "SetWithExpiration_Unlock"
    /\ pc["c1"] = "SetWithExpiration_Lock"
    /\ "b" \in DOMAIN items
    /\ cleanupInterval > 0


(* --------------------------------- C15 ---------------------------------- *)

\* caller c is in a set whose value json.Marshal rejects
FailingSet(c) == call[c].op = "SetWithExpiration" /\ ~EncodeOK(call[c].value)

\* C15: a set whose value cannot be encoded returns the encoding error without
\* ever taking the lock, and no step of it changes the map: the entry under
\* its key and all other entries stay as they were.
C15_EncodeErrorKeepsMap ==
    /\ [](\A c \in Callers : (FailingSet(c) /\ pc[c] # "SetWithExpiration") =>
            /\ pc[c] = "return"
            /\ loc[c].err = "encoding"
            /\ mu.w # c /\ c \notin mu.r)
    /\ [][\A c \in Callers : (FailingSet(c) /\ pc'[c] # pc[c]) =>
            (items' = items /\ mu' = mu /\ hist' = hist)]_vars

\* a set of a channel has failed on a key that holds an entry with a ttl
C15_Witness ==
    \E c \in Callers :
        /\ FailingSet(c) /\ pc[c] = "return" /\ loc[c].err = "encoding"
        /\ call[c].key \in DOMAIN items
        /\ items[call[c].key] = Item(<<1, 2>>, 1 + MaxTTL)


(* --------------------------------- C16 ---------------------------------- *)

\* C16: a set replaces the whole entry: the caller that has just stored under
\* the lock finds exactly its own value and expiration in the map, and the
\* entry of a key always is the pair of the set that took the write lock last.
\* So a key last set without ttl never expires (TTL is -1, no purge at any
\* instant removes it), and a key last set with a ttl has an expiration (TTL is
\* not -1) and, once the ttl has passed, is missed by reads and purged.
C16_LastSetWins ==
    /\ \A c \in Callers : pc[c] = "SetWithExpiration_Unlock" =>
            /\ call[c].key \in DOMAIN items
            /\ items[call[c].key] =
                  Item(Encode(call[c].value), ExpirationFor(call[c].duration, loc[c].now))
    /\ \A k \in Keys :
            /\ k \in DOMAIN items =>
                  /\ WasSet(k)
                  /\ items[k].Value = Encode(hist[k].value)
                  /\ items[k].Expiration = ExpirationFor(hist[k].duration, hist[k].tnow)
            /\ (WasSet(k) /\ hist[k].duration <= 0) =>
                  /\ k \in DOMAIN items
                  /\ TTLErr(items, k, now) = "nil" /\ TTLDuration(items, k, now) = -1
                  /\ \A t \in 1..MaxTime : k \in DOMAIN Purge(items, t)
            /\ (WasSet(k) /\ hist[k].duration > 0 /\ k \in DOMAIN items) =>
                  /\ items[k].Expiration # 0
                  /\ TTLDuration(items, k, now) # -1
                  /\ Lapsed(k, now) =>
                        (~ExistsResult(items, k, now) /\ k \notin DOMAIN Purge(items, now))

\* two sets of the same key race, one without and one with a ttl: one has
\* stored and holds the lock, the other has encoded and waits for the lock
C16_Witness ==
    \E c, d \in Callers :
        /\ pc[c] = "SetWithExpiration_Unlock" /\ pc[d] = "SetWithExpiration_Lock"
        /\ call[c].key = call[d].key
        /\ call[c].duration = 0 /\ call[d].duration > 0
        /\ items[call[c].key] = Item(<<1, 2>>, 0)


(* --------------------------------- C17 ---------------------------------- *)

\* caller c is in an operation of the store (any but StopJanitor)
InStoreOp(c) == pc[c] # "idle" /\ call[c].op # "StopJanitor"

\* where an operation is about to take the write lock, and the read lock
AtLock == {"SetWithExpiration_Lock", "Delete", "Flush", "DeleteExpired_Lock"}
AtRLock == {"GetBytes", "GetString", "Get", "Exists", "Count", "TTL"}

\* process p holds the mutex
Holds(p) == mu.w = p \/ p \in mu.r

\* C17: every operation of the store returns. No operation takes the lock
\* while it holds it; a caller that is idle or past its unlock holds no lock;
\* an operation that cannot step is waiting for the lock and for nothing else,
\* and the lock it waits for is held by a process that can step; so, with a
\* fair scheduler and lock, a caller in an operation gets back to idle, also
\* while another caller's StopJanitor is pending.
C17_OperationsReturn ==
    /\ [](\A c \in Callers :
            /\ pc[c] \in AtLock \cup AtRLock => ~Holds(c)
            /\ pc[c] \in {"idle", "return", "Get_Decode", "GetString_Convert"} => ~Holds(c)
            /\ (InStoreOp(c) /\ ~ENABLED Run(c)) =>
                  \/ pc[c] \in AtLock /\ ~CanLock
                  \/ pc[c] \in AtRLock /\ ~CanRLock)
    /\ [](\A p \in Procs : Holds(p) =>
            IF p = Janitor THEN ENABLED Janitor_Unlock ELSE ENABLED Run(p))
    /\ \A c \in Callers : InStoreOp(c) ~> pc[c] = "idle"

\* a Delete waits for the lock that the janitor holds, while the StopJanitor
\* of the other caller waits for the janitor
C17_Witness ==
    \E c, d \in Callers :
        /\ pc[c] = "Delete" /\ ~CanLock
        /\ pc[Janitor] = "DeleteExpired_Unlock" /\ mu.w = Janitor
        /\ pc[d] = "StopJanitor_Send"


(* --------------------------------- C18 ---------------------------------- *)

\* where a caller runs the type switch with json.Marshal, and where it runs
\* string(bytes) or json.Unmarshal
AtEncode == {"SetWithExpiration"}
AtDecode == {"Get_Decode", "GetString_Convert"}

\* C18: a caller in its encode or decode step holds neither the read nor the
\* write lock; a set that holds the write lock has its bytes encoded already,
\* and a get that holds the read lock has decoded nothing yet.
C18_NoLockWhileCoding ==
    \A c \in Callers :
        /\ pc[c] \in AtEncode \cup AtDecode => ~Holds(c)
        /\ (pc[c] = "SetWithExpiration_Unlock" /\ Holds(c)) =>
              loc[c].bytes = Encode(call[c].value)
        /\ (pc[c] = "GetBytes_RUnlock" /\ Holds(c)) =>
              (loc[c].n = 0 /\ loc[c].str = <<>> /\ loc[c].err = "nil")

\* a Get is about to decode the bytes it found while the janitor holds the
\* write lock
C18_Witness ==
    \E c \in Callers :
        /\ pc[c] = "Get_Decode" /\ call[c].target = "int" /\ loc[c].found
        /\ mu.w = Janitor


(* --------------------------------- C19 ---------------------------------- *)

\* C19: at every instant and for every key, Exists is true exactly when
\* GetBytes finds the key and exactly when TTL returns no error; and an entry
\* that DeleteExpired would remove at that instant is one that Exists and
\* GetBytes report absent, the instant equal to the expiration included.
C19_ReadsAgree ==
    \A k \in Keys :
        /\ ExistsResult(items, k, now) <=> GetBytesFound(items, k, now)
        /\ ExistsResult(items, k, now) <=> (TTLErr(items, k, now) = "nil")
        /\ (k \in DOMAIN items /\ ShouldPurge(items[k], now)) =>
              (~ExistsResult(items, k, now) /\ ~GetBytesFound(items, k, now))


(* --------------------------------- C20 ---------------------------------- *)

\* C20: the bytes of an entry change only by an operation of the store under
\* the lock: whatever a caller does to the slice it passed to Set or got from
\* GetBytes, the entry holds the bytes its last set stored, and GetBytes
\* returns them.
C20_BytesNotShared ==
    /\ \A k \in DOMAIN items : WasSet(k) => items[k].Value = Encode(hist[k].value)
    /\ \A c \in Callers :
          (pc[c] = "GetBytes_RUnlock" /\ loc[c].found /\ WasSet(call[c].key))
              => loc[c].bytes = Encode(hist[call[c].key].value)

====
